---- MODULE Spec2Model ----
(***************************************************************************)
(* A model of the show tracker's enrichment and deduplication pipeline:    *)
(* ShowManager (src/show_manager.py) over Database (src/database.py), and  *)
(* the scan command (src/show_tracker.py, src/image_processor.py).         *)
(*                                                                         *)
(* Text is a sequence of one-character strings.  A column value of the     *)
(* store and a JSON value of a provider response are tokens (see Values    *)
(* below).  Timestamps are integers taken from a clock that advances with  *)
(* every operation.                                                        *)
(***************************************************************************)
EXTENDS Integers, Sequences, FiniteSets, TLC

VARIABLES
    store,      \* the rows of table shows, in id order: row i has id i
    config,     \* config['settings']: auto_enrich and user_categories
    nops,       \* operations performed so far; also the clock
    lastOp,     \* the last operation: its arguments and what it did
    processed_images,   \* table processed_images: image_path -> shows_extracted
    procs       \* the add_show calls of concurrent processes: where each stands

vars == <<store, config, nops, lastOp, processed_images, procs>>

----------------------------------------------------------------------------
(* Bounds of the model *)

\* longest text given to normalize_string on its own
MaxLen == 3
\* rows the store may hold
MaxShows == 2
\* operations in one run
MaxOps == 2

----------------------------------------------------------------------------
(* Characters, as Python's str and re classify them *)

LowerLetters == {"a", "t", "u"}
UpperLetters == {"A", "T"}
Whitespace == {" ", "\t", "\n"}
\* \w : letters, digits and the underscore
WordChars == LowerLetters \cup UpperLetters \cup {"_"}
\* neither \w nor \s
Punctuation == {"!"}

\* str.lower, one character
LowerChar(c) == IF c = "A" THEN "a" ELSE IF c = "T" THEN "t" ELSE c

\* str.lower
Lower(s) == [i \in 1..Len(s) |-> LowerChar(s[i])]

\* str.strip: drop leading and trailing whitespace
RECURSIVE LStrip(_)
LStrip(s) ==
    IF s = <<>> THEN <<>>
    ELSE IF Head(s) \in Whitespace THEN LStrip(Tail(s))
    ELSE s

RECURSIVE RStrip(_)
RStrip(s) ==
    IF s = <<>> THEN <<>>
    ELSE IF s[Len(s)] \in Whitespace THEN RStrip(SubSeq(s, 1, Len(s) - 1))
    ELSE s

Strip(s) == RStrip(LStrip(s))

\* re.sub(r'[^\w\s]', '', s)
IsWordOrSpace(c) == c \in WordChars \/ c \in Whitespace
RemovePunctuation(s) == SelectSeq(s, IsWordOrSpace)

\* re.sub(r'\s+', ' ', s): every maximal run of whitespace becomes one space
RECURSIVE CollapseWhitespace(_)
CollapseWhitespace(s) ==
    IF s = <<>> THEN <<>>
    ELSE IF Head(s) \in Whitespace
         THEN <<" ">> \o CollapseWhitespace(LStrip(Tail(s)))
         ELSE <<Head(s)>> \o CollapseWhitespace(Tail(s))

\* ShowManager.normalize_string: lower and strip first, then the two re.sub
normalize_string(s) == CollapseWhitespace(RemovePunctuation(Strip(Lower(s))))

----------------------------------------------------------------------------
(* Values.  A JSON value of a provider response, and a value of a show as  *)
(* business logic sees it:                                                 *)
(*   "NULL" None;  "" the empty string;  "[]" the empty list;              *)
(*   "s1", "s2" non-empty strings that are not JSON text;                  *)
(*   "l1", "l2" non-empty lists;  "0" the number zero.                     *)
(* A column value of the store is "NULL", "", "s1", "s2", "0" or the JSON  *)
(* text of a list, "json:[]", "json:l1", "json:l2".                        *)

Lists == {"[]", "l1", "l2"}

\* Python truthiness of a value
Truthy(v) == v \notin {"NULL", "", "[]", "0"}

\* json.dumps of a list
JsonDumps(v) == IF v = "[]" THEN "json:[]" ELSE IF v = "l1" THEN "json:l1" ELSE "json:l2"

\* json.loads of a stored text, with Database._row_to_dict's fallback to []
\* when the text does not decode
JsonLoadsOrEmpty(t) ==
    IF t = "json:[]" THEN "[]"
    ELSE IF t = "json:l1" THEN "l1"
    ELSE IF t = "json:l2" THEN "l2"
    ELSE IF t = "0" THEN "0"
    ELSE "[]"

----------------------------------------------------------------------------
(* The schema of table shows *)

\* ShowManager.enrich_show: enrichable_fields, in declaration order
enrichable_fields ==
    << "lead_cast", "director", "choreographer", "composer", "lyricist", "book_writer",
       "opening_date", "closing_date", "is_revival", "original_production_year",
       "production_type", "plot_summary", "genre", "tony_awards", "other_awards",
       "musical_numbers", "themes", "running_time", "intermission_count",
       "llm_categories" >>

\* the fields the full prompt of _enrich_show_info lists and its JSON shape shows
full_prompt_fields ==
    << "lead_cast", "director", "choreographer", "composer", "lyricist", "book_writer",
       "opening_date", "closing_date", "is_revival", "original_production_year",
       "production_type", "plot_summary", "genre", "tony_awards", "other_awards",
       "musical_numbers", "themes", "running_time", "intermission_count",
       "categories" >>

Range(q) == {q[i] : i \in 1..Len(q)}
EnrichableSet == Range(enrichable_fields)

\* the columns Database writes and reads as JSON text
json_fields ==
    {"lead_cast", "tony_awards", "other_awards", "musical_numbers", "themes",
     "llm_categories", "user_categories"}

\* the columns a caller of add_show or update_show sets
CoreColumns ==
    {"show_name", "theater_name", "date_added", "date_attended", "seen_status",
     "rating", "personal_notes", "source_image_path", "last_updated"}

\* every column of table shows
Columns == {"id"} \cup CoreColumns \cup EnrichableSet \cup {"user_categories"}

\* a column's value in a row inserted without it
ColumnDefault(c) == IF c = "is_revival" THEN "0" ELSE "NULL"

\* what sqlite3 stores for a bound parameter: a list is dumped for a JSON column
\* by add_show and update_show, and any other list cannot be bound
Bindable(c, v) == v \notin Lists \/ c \in json_fields
ToColumn(c, v) == IF c \in json_fields /\ v \in Lists THEN JsonDumps(v) ELSE v

\* a faulty variant: the stored text is returned as it is
FromColumnUndecoded(c, t) == t

\* Database._row_to_dict: the JSON columns that hold a truthy text are decoded
FromColumn(c, t) == IF c \in json_fields /\ Truthy(t) THEN JsonLoadsOrEmpty(t) ELSE t
_row_to_dict(row) == [c \in DOMAIN row |-> FromColumn(c, row[c])]

\* Database.get_show: the set holding the show, or the empty set for None
get_show(rows, show_id) ==
    IF show_id \in 1..Len(rows) THEN {_row_to_dict(rows[show_id])} ELSE {}

\* a faulty variant: the shows in the order they were added, oldest first
get_all_shows_oldest_first(rows) == [i \in 1..Len(rows) |-> _row_to_dict(rows[i])]

\* Database.search_shows({}) as get_all_shows calls it: ORDER BY date_added DESC.
\* The i-th show is the row with i - 1 rows added after it.
get_all_shows(rows) ==
    [i \in 1..Len(rows) |->
        _row_to_dict(rows[CHOOSE j \in 1..Len(rows) :
            Cardinality({k \in 1..Len(rows) :
                rows[k].date_added > rows[j].date_added}) = i - 1])]

----------------------------------------------------------------------------
(* Database: the writes.  Each returns the rows after the call and the     *)
(* exception it raised ("none" when it returned).  A write that raises     *)
(* leaves its connection unclosed; the model takes the next operation to   *)
(* meet no lock from it (it runs in another process, or after the          *)
(* connection was collected).                                              *)

\* faulty variants: the names are compared as find_duplicate compares them; and
\* NULL dates are held equal
UniqueViolationNormalized(rows, self, show_name, theater_name, date_attended) ==
    /\ date_attended # "NULL"
    /\ \E i \in 1..Len(rows) :
        /\ i # self
        /\ normalize_string(rows[i].show_name) = normalize_string(show_name)
        /\ normalize_string(rows[i].theater_name) = normalize_string(theater_name)
        /\ rows[i].date_attended = date_attended

UniqueViolationNullsEqual(rows, self, show_name, theater_name, date_attended) ==
    \E i \in 1..Len(rows) :
        /\ i # self
        /\ rows[i].show_name = show_name
        /\ rows[i].theater_name = theater_name
        /\ rows[i].date_attended = date_attended

\* UNIQUE(show_name, theater_name, date_attended): SQLite holds NULLs distinct
UniqueViolation(rows, self, show_name, theater_name, date_attended) ==
    /\ date_attended # "NULL"
    /\ \E i \in 1..Len(rows) :
        /\ i # self
        /\ rows[i].show_name = show_name
        /\ rows[i].theater_name = theater_name
        /\ rows[i].date_attended = date_attended

\* a rating that is a number from 1 to 10
Ratings == {"7"}

\* a name that is None: names are texts, so None is a text of its own
NoName == <<"None">>

\* the NOT NULL and CHECK constraints of the columns, on a row to be stored:
\* a CHECK passes on NULL; a text or the number zero fails the rating's bounds.
\* date_added and last_updated are NOT NULL too, and always hold a clock reading.
ConstraintViolation(row) ==
    \/ row.show_name = NoName
    \/ row.theater_name = NoName
    \/ row.seen_status \notin {"seen", "wishlist", "NULL"}
    \/ row.rating \notin (Ratings \cup {"NULL"})

\* Database.add_show: INSERT of the given columns, date_added = last_updated = now
db_add_show(rows, show_data, now) ==
    LET id == Len(rows) + 1
        row == [c \in Columns |->
                   IF c = "id" THEN id
                   ELSE IF c \in {"date_added", "last_updated"} THEN now
                   ELSE IF c \in DOMAIN show_data THEN ToColumn(c, show_data[c])
                   ELSE ColumnDefault(c)]
    IN  IF \E c \in DOMAIN show_data : ~Bindable(c, show_data[c])
        THEN [rows |-> rows, raised |-> "ProgrammingError", id |-> 0]
        ELSE IF \/ ConstraintViolation(row)
                \/ UniqueViolation(rows, 0, show_data.show_name, show_data.theater_name,
                                   show_data.date_attended)
        THEN [rows |-> rows, raised |-> "IntegrityError", id |-> 0]
        ELSE [rows |-> Append(rows, row), raised |-> "none", id |-> id]

\* Database.update_show: UPDATE shows SET <updates>, last_updated = now WHERE id = ?
db_update_show(rows, show_id, updates, now) ==
    IF ~(DOMAIN updates \subseteq Columns)
    THEN [rows |-> rows, raised |-> "OperationalError"]
    ELSE IF \E k \in DOMAIN updates : ~Bindable(k, updates[k])
    THEN [rows |-> rows, raised |-> "ProgrammingError"]
    ELSE IF show_id \notin 1..Len(rows)
    THEN [rows |-> rows, raised |-> "none"]
    ELSE
        LET old == rows[show_id]
            new == [c \in Columns |->
                       IF c = "last_updated" THEN now
                       ELSE IF c \in DOMAIN updates THEN ToColumn(c, updates[c])
                       ELSE old[c]]
        IN  IF \/ ConstraintViolation(new)
                \/ UniqueViolation(rows, show_id, new.show_name, new.theater_name,
                                   new.date_attended)
            THEN [rows |-> rows, raised |-> "IntegrityError"]
            ELSE [rows |-> [rows EXCEPT ![show_id] = new], raised |-> "none"]

----------------------------------------------------------------------------
(* ShowManager.find_duplicate *)

\* Faulty variants of the test, which the properties of find_duplicate must tell
\* from it: one compares the dates even when none is supplied, one never does
IsDuplicateDateAlways(show, show_name, theater_name, date_attended) ==
    /\ normalize_string(show.show_name) = normalize_string(show_name)
    /\ normalize_string(show.theater_name) = normalize_string(theater_name)
    /\ show.date_attended = date_attended

IsDuplicateDateNever(show, show_name, theater_name, date_attended) ==
    /\ normalize_string(show.show_name) = normalize_string(show_name)
    /\ normalize_string(show.theater_name) = normalize_string(theater_name)

\* the condition under which find_duplicate returns show
IsDuplicate(show, show_name, theater_name, date_attended) ==
    /\ normalize_string(show.show_name) = normalize_string(show_name)
    /\ normalize_string(show.theater_name) = normalize_string(theater_name)
    /\ (Truthy(date_attended) => show.date_attended = date_attended)

\* the id of the first show of get_all_shows that matches, 0 for None
find_duplicate(rows, show_name, theater_name, date_attended) ==
    LET all_shows == get_all_shows(rows)
        hits == {i \in 1..Len(all_shows) :
                    IsDuplicate(all_shows[i], show_name, theater_name, date_attended)}
    IN  IF hits = {} THEN 0
        ELSE all_shows[CHOOSE i \in hits : \A j \in hits : i <= j].id

----------------------------------------------------------------------------
(* The provider.  An answer to the enrichment prompt is                    *)
(*   [kind |-> "object", data |-> a mapping of keys to values], or         *)
(*   [kind |-> "error"]: the call threw or its text is not JSON, or        *)
(*   [kind |-> "notobject"]: JSON text that is not an object.              *)
(* An answer to the category prompt is "error" or the decoded value.       *)

EmptyMapping == [k \in {} |-> "NULL"]

\* the missing_fields argument None
None == <<"None">>

\* the fields _enrich_show_info names in its prompt
requested_fields(missing_fields) ==
    IF missing_fields # None /\ missing_fields # <<>>
    THEN missing_fields
    ELSE full_prompt_fields

\* a faulty variant: a failed call is not turned into the empty mapping
_enrich_show_info_unguarded(answer) == answer

\* ShowManager._enrich_show_info: the decoded answer, {} on any exception
_enrich_show_info(answer) ==
    IF answer.kind = "error" THEN [kind |-> "object", data |-> EmptyMapping] ELSE answer

\* ShowManager._match_user_categories: the decoded answer, [] on any exception
_match_user_categories(answer) == IF answer = "error" THEN "[]" ELSE answer

----------------------------------------------------------------------------
(* ShowManager.enrich_show *)

\* the test of line 161
IsMissing(value) == value = "NULL" \/ value = "" \/ value = "[]"

\* a faulty variant: every field counts as missing
missing_fields_every(show) == enrichable_fields

\* missing_fields as the loop of lines 158-162 builds it
missing_fields_of(show) ==
    LET Test(f) == IsMissing(show[f])
    IN  SelectSeq(enrichable_fields, Test)

\* a faulty variant: force is not looked at
missing_fields_whatever_force(show, force) ==
    LET Test(f) == IsMissing(show[f])
    IN  SelectSeq(enrichable_fields, Test)

\* lines 155-162: None under force, else the fields of the show that are missing
missing_fields_for(show, force) == IF force THEN None ELSE missing_fields_of(show)

\* a faulty variant: every key of the answer enters the update set
accepted_updates_all(enriched_data, force, missing_fields) == enriched_data

\* a faulty variant: the documented key categories is taken as llm_categories
accepted_updates_renaming(enriched_data, force, missing_fields) ==
    LET Renamed(k) == IF k = "categories" THEN "llm_categories" ELSE k
        allowed == IF missing_fields # None /\ missing_fields # <<>>
                   THEN Range(missing_fields)
                   ELSE EnrichableSet
        keys == {k \in DOMAIN enriched_data : force \/ Renamed(k) \in allowed}
    IN  [c \in {Renamed(k) : k \in keys} |->
            enriched_data[CHOOSE k \in keys : Renamed(k) = c]]

\* lines 176-179: the keys of the answer that enter the update set
accepted_updates(enriched_data, force, missing_fields) ==
    LET allowed == IF missing_fields # None /\ missing_fields # <<>>
                   THEN Range(missing_fields)
                   ELSE EnrichableSet
        keys == IF force THEN DOMAIN enriched_data
                ELSE DOMAIN enriched_data \cap allowed
    IN  [k \in keys |-> enriched_data[k]]

\* line 182: updates.get('plot_summary') or show.get('plot_summary')
plot_summary_of(updates, show) ==
    IF "plot_summary" \in DOMAIN updates /\ Truthy(updates["plot_summary"])
    THEN updates["plot_summary"]
    ELSE show["plot_summary"]

\* line 183: whether _match_user_categories is called
should_match(updates, show, settings) ==
    Truthy(plot_summary_of(updates, show)) /\ settings.user_categories

\* line 191
with_user_categories(updates, user_cats) ==
    [k \in DOMAIN updates \cup {"user_categories"} |->
        IF k = "user_categories" THEN user_cats ELSE updates[k]]

\* lines 169-183 of enrich_show(show_id, force) on a show it found and has to
\* enrich: whether this answer to the enrichment prompt leads to the category prompt
asks_categories(rows, settings, show_id, force, answer) ==
    LET show == CHOOSE x \in get_show(rows, show_id) : TRUE
        missing_fields == missing_fields_for(show, force)
        enriched == _enrich_show_info(answer)
    IN  /\ enriched.kind = "object"
        /\ should_match(accepted_updates(enriched.data, force, missing_fields),
                        show, settings)

\* what a call that made no provider call and no write reports
NoCalls(rows, raised, ret) ==
    [rows |-> rows, raised |-> raised, ret |-> ret, requests |-> <<>>,
     matches |-> 0, accepted |-> EmptyMapping, updates |-> EmptyMapping]

\* enrich_show(show_id, force), given the provider's answers and the time:
\*   rows      the rows after the call
\*   raised    the exception that left the call, "none" when it returned
\*   ret       the set holding the returned show
\*   requests  the enrichment prompts issued, each as the fields it names
\*   matches   the number of category prompts issued
\*   accepted  the keys of the enrichment answer taken into the update set
\*   updates   the update set at line 194
enrich_show(rows, settings, show_id, force, answer, cats_answer, now) ==
    IF get_show(rows, show_id) = {} THEN NoCalls(rows, "ValueError", {})
    ELSE
    LET show == CHOOSE x \in get_show(rows, show_id) : TRUE
        missing_fields == missing_fields_for(show, force)
    IN  IF ~force /\ missing_fields = <<>> THEN NoCalls(rows, "none", {show})
        ELSE
        LET requests == <<requested_fields(missing_fields)>>
            enriched == _enrich_show_info(answer)
        IN  IF enriched.kind # "object"
            THEN [NoCalls(rows, "AttributeError", {}) EXCEPT !.requests = requests]
            ELSE
            LET accepted == accepted_updates(enriched.data, force, missing_fields)
                matching == should_match(accepted, show, settings)
                updates == IF matching
                           THEN with_user_categories(accepted,
                                    _match_user_categories(cats_answer))
                           ELSE accepted
                written == IF DOMAIN updates # {}
                           THEN db_update_show(rows, show_id, updates, now)
                           ELSE [rows |-> rows, raised |-> "none"]
            IN  [rows |-> written.rows,
                 raised |-> written.raised,
                 ret |-> IF written.raised = "none"
                         THEN get_show(written.rows, show_id) ELSE {},
                 requests |-> requests,
                 matches |-> IF matching THEN 1 ELSE 0,
                 accepted |-> accepted,
                 updates |-> updates]

----------------------------------------------------------------------------
(* ShowManager.add_show *)

\* a faulty variant: a configured value goes before the argument
should_enrich_settings_first(auto_enrich, settings) ==
    IF settings.auto_enrich # "absent" THEN settings.auto_enrich = "True"
    ELSE IF auto_enrich # "None" THEN auto_enrich = "True"
    ELSE TRUE

\* line 370: auto_enrich if not None, else settings.get('auto_enrich', True)
should_enrich(auto_enrich, settings) ==
    IF auto_enrich # "None" THEN auto_enrich = "True"
    ELSE IF settings.auto_enrich # "absent" THEN settings.auto_enrich = "True"
    ELSE TRUE

\* a faulty variant: the duplicate found is touched, which sets its last_updated
on_duplicate_touching(rows, duplicate, now) ==
    [rows |-> db_update_show(rows, duplicate, EmptyMapping, now).rows,
     raised |-> "none", id |-> duplicate, status |-> "duplicate",
     requests |-> <<>>, matches |-> 0, enrich_raised |-> "not called"]

\* lines 363-364: what add_show returns for the duplicate it found
on_duplicate(rows, duplicate, now) ==
    [rows |-> rows, raised |-> "none", id |-> duplicate, status |-> "duplicate",
     requests |-> <<>>, matches |-> 0, enrich_raised |-> "not called"]

\* a faulty variant: an exception of enrich_show leaves add_show
after_enrichment_uncaught(id, e) ==
    [rows |-> e.rows, raised |-> e.raised, id |-> id,
     status |-> IF e.raised = "none" THEN "added" ELSE "none",
     requests |-> e.requests, matches |-> e.matches, enrich_raised |-> e.raised]

\* lines 372-378: the try around enrich_show, whose outcome is e, and the return;
\* enrich_raised is the exception that was caught, "none" when there was none
after_enrichment(id, e) ==
    [rows |-> e.rows, raised |-> "none", id |-> id, status |-> "added",
     requests |-> e.requests, matches |-> e.matches, enrich_raised |-> e.raised]

\* add_show(show_data, auto_enrich), given the provider's answers and the times of
\* the insert and of the enrichment's update
add_show(rows, settings, show_data, auto_enrich, answer, cats_answer, now, later) ==
    LET duplicate == find_duplicate(rows, show_data.show_name, show_data.theater_name,
                                    show_data.date_attended)
    IN  IF duplicate # 0
        THEN on_duplicate(rows, duplicate, now)
        ELSE
        LET inserted == db_add_show(rows, show_data, now)
        IN  IF inserted.raised # "none"
            THEN [rows |-> rows, raised |-> inserted.raised, id |-> 0, status |-> "none",
                  requests |-> <<>>, matches |-> 0, enrich_raised |-> "not called"]
            ELSE IF should_enrich(auto_enrich, settings)
            THEN after_enrichment(inserted.id,
                     enrich_show(inserted.rows, settings, inserted.id, FALSE,
                                 answer, cats_answer, later))
            ELSE [rows |-> inserted.rows, raised |-> "none", id |-> inserted.id,
                  status |-> "added", requests |-> <<>>, matches |-> 0,
                  enrich_raised |-> "not called"]

----------------------------------------------------------------------------
(* Inputs *)

\* show_data: date_attended is absent ("NULL"), empty or a date.  The second and
\* third pairs differ from the first in letter case, and in punctuation and
\* whitespace; the fourth is another theater.
ShowInputs ==
    [show_name : {<<"a">>}, theater_name : {<<"t">>},
     date_attended : {"NULL", "", "2023-05-01", "2024-01-01"}, seen_status : {"seen"}]
    \cup [show_name : {<<"A">>}, theater_name : {<<"T">>},
          date_attended : {"NULL", "2023-05-01"}, seen_status : {"seen"}]
    \cup [show_name : {<<"a", " ", "!">>}, theater_name : {<<"t">>},
          date_attended : {"NULL", "2023-05-01"}, seen_status : {"seen"}]
    \cup [show_name : {<<"a">>}, theater_name : {<<"u">>},
          date_attended : {"2023-05-01"}, seen_status : {"wishlist"}]

\* the one show of the runs that vary the provider's answers
OneShow ==
    {[show_name |-> <<"a">>, theater_name |-> <<"t">>, date_attended |-> "NULL",
      seen_status |-> "seen"]}

\* the auto_enrich argument
AutoEnrichArgs == {"None", "False"}
AutoEnrichValues == {"None", "True", "False"}

\* settings.auto_enrich is absent or a boolean; settings.user_categories is a
\* non-empty list (TRUE) or is absent or empty (FALSE)
Settings == [auto_enrich : {"absent", "True", "False"}, user_categories : BOOLEAN]

\* an answer that gives every key of keys a value of its documented type
Compliant(keys, n) ==
    [k \in keys |->
        IF k \in json_fields \/ k = "categories"
        THEN (IF n = 1 THEN "l1" ELSE "l2")
        ELSE (IF n = 1 THEN "s1" ELSE "s2")]

Object(data) == [kind |-> "object", data |-> data]

\* the documented JSON shape, and the same with llm_categories for categories
DocumentedAnswer == Object(Compliant(Range(full_prompt_fields), 1))
ShapedAnswers ==
    {DocumentedAnswer} \cup {Object(Compliant(Range(enrichable_fields), n)) : n \in {1, 2}}

\* answers of one key
SingleAnswers ==
    {Object([k \in {"director"} |-> v]) : v \in {"s1", "NULL", "", "l1"}}
    \cup {Object([k \in {"plot_summary"} |-> "s1"])}
    \cup {Object([k \in {"lead_cast"} |-> v]) : v \in {"l1", "[]", "s1"}}
    \cup {Object([k \in {"personal_notes"} |-> "s1"])}
    \cup {Object([k \in {"seen_status"} |-> v]) : v \in {"NULL", "s1"}}

Answers ==
    {[kind |-> "error"], [kind |-> "notobject"], Object(EmptyMapping)}
    \cup ShapedAnswers \cup SingleAnswers

\* the answers drawn where the runs vary the shows
FewAnswers == {[kind |-> "error"], DocumentedAnswer}

\* the answers add_show's enrichment draws from where the runs vary the answers
AddAnswers ==
    {[kind |-> "error"], [kind |-> "notobject"], DocumentedAnswer,
     Object(Compliant(Range(enrichable_fields), 1)),
     Object([k \in {"director"} |-> "s1"]),
     Object([k \in {"director"} |-> "l1"])}

CatsAnswers == {"error", "[]", "l1"}

UpdateInputs ==
    {[k \in {"date_attended"} |-> "2023-05-01"], [k \in {"seen_status"} |-> "wishlist"]}

----------------------------------------------------------------------------
(* The operations.  The provider answers only the prompts that are issued, *)
(* so an operation draws an answer only for a prompt it issues.  lastOp    *)
(* keeps the operation's arguments, the answers it drew, the rows before   *)
(* it (before) and what it returned or raised.                             *)

Unused == [kind |-> "unused"]

\* table processed_images of a new database: no row
NoMarks == [image_path \in {} |-> 0]

\* the processes that may run add_show side by side, none of them in a call
Procs == {1, 2}
NoCall == [p \in Procs |-> [pc |-> "idle"]]

Init ==
    /\ store = <<>>
    /\ config \in Settings
    /\ nops = 0
    /\ lastOp = [op |-> "init"]
    /\ processed_images = NoMarks
    /\ procs = NoCall

\* the clock: two readings per operation
Now == 2 * nops + 1
Later == 2 * nops + 2

\* add_show run without the provider: the run itself when it issues no prompt
AddShowAlone(show_data, auto_enrich) ==
    add_show(store, config, show_data, auto_enrich, Unused, "unused", Now, Later)

AddShowDone(show_data, auto_enrich, answer, cats_answer, r) ==
    /\ Len(r.rows) <= MaxShows
    /\ store' = r.rows
    /\ nops' = nops + 1
    /\ lastOp' = [op |-> "add_show", before |-> store, show_data |-> show_data,
                  auto_enrich |-> auto_enrich, raised |-> r.raised, id |-> r.id,
                  status |-> r.status, requests |-> r.requests,
                  matches |-> r.matches, enrich_raised |-> r.enrich_raised,
                  answer |-> answer, cats_answer |-> cats_answer]
    /\ UNCHANGED <<config, processed_images, procs>>

AddShow(show_data, auto_enrich, answers) ==
    /\ nops < MaxOps
    /\ LET alone == AddShowAlone(show_data, auto_enrich)
       IN  IF alone.requests = <<>>
           THEN AddShowDone(show_data, auto_enrich, Unused, "unused", alone)
           ELSE \E answer \in answers :
                  \E cats_answer \in
                        (IF asks_categories(alone.rows, config, alone.id, FALSE, answer)
                         THEN CatsAnswers ELSE {"unused"}) :
                     AddShowDone(show_data, auto_enrich, answer, cats_answer,
                         add_show(store, config, show_data, auto_enrich, answer,
                                  cats_answer, Now, Later))

\* enrich_show run without the provider: the run itself when it issues no prompt
EnrichShowAlone(show_id, force) ==
    enrich_show(store, config, show_id, force, Unused, "unused", Now)

EnrichShowDone(show_id, force, answer, cats_answer, r) ==
    /\ store' = r.rows
    /\ nops' = nops + 1
    /\ lastOp' = [op |-> "enrich_show", before |-> store, id |-> show_id,
                  force |-> force, raised |-> r.raised, ret |-> r.ret,
                  requests |-> r.requests, matches |-> r.matches,
                  accepted |-> r.accepted, updates |-> r.updates,
                  answer |-> answer, cats_answer |-> cats_answer]
    /\ UNCHANGED <<config, processed_images, procs>>

EnrichShow(show_id, force, answers) ==
    /\ nops < MaxOps
    /\ LET alone == EnrichShowAlone(show_id, force)
       IN  IF alone.requests = <<>>
           THEN EnrichShowDone(show_id, force, Unused, "unused", alone)
           ELSE \E answer \in answers :
                  \E cats_answer \in
                        (IF asks_categories(store, config, show_id, force, answer)
                         THEN CatsAnswers ELSE {"unused"}) :
                     EnrichShowDone(show_id, force, answer, cats_answer,
                         enrich_show(store, config, show_id, force, answer,
                                     cats_answer, Now))

UpdateShowDone(show_id, updates) ==
    LET r == db_update_show(store, show_id, updates, Now)
    IN  /\ store' = r.rows
        /\ nops' = nops + 1
        /\ lastOp' = [op |-> "update_show", before |-> store, id |-> show_id,
                      updates |-> updates, raised |-> r.raised]
        /\ UNCHANGED <<config, processed_images, procs>>

UpdateShow(show_id, updates) ==
    /\ nops < MaxOps
    /\ UpdateShowDone(show_id, updates)

\* the ids a caller passes: those of the store and one that is not in it
ShowIds == 1..(Len(store) + 1)

\* runs that vary the shows
Next ==
    \/ \E show_data \in ShowInputs, auto_enrich \in AutoEnrichArgs :
          AddShow(show_data, auto_enrich, FewAnswers)
    \/ \E show_id \in ShowIds, force \in BOOLEAN :
          EnrichShow(show_id, force, FewAnswers)
    \/ \E show_id \in ShowIds, updates \in UpdateInputs :
          UpdateShow(show_id, updates)

Spec == Init /\ [][Next]_vars

\* runs that vary the provider's answers
NextEnrich ==
    \/ \E show_data \in OneShow, auto_enrich \in AutoEnrichValues :
          AddShow(show_data, auto_enrich, AddAnswers)
    \/ \E show_id \in ShowIds, force \in BOOLEAN :
          EnrichShow(show_id, force, Answers)

SpecEnrich == Init /\ [][NextEnrich]_vars

----------------------------------------------------------------------------
(* normalize_string on its own: a text is drawn, then normalized once, or  *)
(* normalized twice, or normalized next to a variant of it.                *)

\* the characters of the texts: a letter in both cases, the two kinds of
\* whitespace, a punctuation character and the underscore
TextChars == {"a", "A", " ", "\t", "!", "_"}

\* the texts of at most n characters
Texts(n) == UNION {[1..k -> TextChars] : k \in 0..n}

\* s with c put after its i-th character
Insert(s, i, c) == SubSeq(s, 1, i) \o <<c>> \o SubSeq(s, i + 1, Len(s))

\* s with the case of one letter changed
CaseVariants(s) ==
    {[s EXCEPT ![i] = c] : i \in {j \in 1..Len(s) : s[j] \in {"a", "A"}},
                           c \in {"a", "A"}} \ {s}

\* s with one punctuation character more
PunctuationVariants(s) == {Insert(s, i, c) : i \in 0..Len(s), c \in Punctuation}

\* s with one whitespace run longer (a run at either end may be empty), or with
\* another whitespace character in a run
WhitespaceVariants(s) ==
    {Insert(s, i, c) :
        i \in {j \in 0..Len(s) : \/ j = 0
                                 \/ j = Len(s)
                                 \/ s[j] \in Whitespace
                                 \/ s[j + 1] \in Whitespace},
        c \in Whitespace}
    \cup ({[s EXCEPT ![i] = c] : i \in {j \in 1..Len(s) : s[j] \in Whitespace},
                                 c \in Whitespace} \ {s})

InitNorm ==
    /\ store = <<>>
    /\ config = [auto_enrich |-> "absent", user_categories |-> FALSE]
    /\ nops = 0
    /\ \E s \in Texts(MaxLen) : lastOp = [op |-> "text", s |-> s]
    /\ processed_images = NoMarks
    /\ procs = NoCall

Normalize ==
    /\ lastOp.op = "text"
    /\ lastOp' = [op |-> "normalize_string", s |-> lastOp.s,
                  result |-> normalize_string(lastOp.s)]
    /\ nops' = nops + 1
    /\ UNCHANGED <<store, config, processed_images, procs>>

NormalizeAgain ==
    /\ lastOp.op = "normalize_string"
    /\ lastOp' = [op |-> "normalize_again", s |-> lastOp.s, once |-> lastOp.result,
                  twice |-> normalize_string(lastOp.result)]
    /\ nops' = nops + 1
    /\ UNCHANGED <<store, config, processed_images, procs>>

NormalizePair(how, variants) ==
    /\ lastOp.op = "text"
    /\ \E t \in variants :
          lastOp' = [op |-> "normalize_pair", how |-> how, s |-> lastOp.s, t |-> t,
                     of_s |-> normalize_string(lastOp.s),
                     of_t |-> normalize_string(t)]
    /\ nops' = nops + 1
    /\ UNCHANGED <<store, config, processed_images, procs>>

NextNorm ==
    \/ Normalize
    \/ NormalizeAgain
    \/ NormalizePair("case", CaseVariants(lastOp.s))
    \/ NormalizePair("punctuation", PunctuationVariants(lastOp.s))
    \/ NormalizePair("whitespace", WhitespaceVariants(lastOp.s))

SpecNorm == InitNorm /\ [][NextNorm]_vars

----------------------------------------------------------------------------
(* Properties of add_show and find_duplicate, over the runs of Spec *)

AddedShow == lastOp.op = "add_show"
NameOf(x) == normalize_string(x.show_name)
TheaterOf(x) == normalize_string(x.theater_name)
NoDate == {"NULL", ""}

\* the rows before the last operation that find_duplicate's name test matches
NameMatches ==
    {i \in 1..Len(lastOp.before) :
        /\ NameOf(lastOp.before[i]) = NameOf(lastOp.show_data)
        /\ TheaterOf(lastOp.before[i]) = TheaterOf(lastOp.show_data)}

\* a text without what the identity of a show disregards: letter case,
\* punctuation, the length of whitespace runs, whitespace at either end
Canonical(s) == Strip(CollapseWhitespace(RemovePunctuation(Lower(s))))

\* the rows before the last operation whose names differ from the entry's only
\* in case, punctuation or whitespace runs and whose date is the entry's
SameButForWriting ==
    {i \in 1..Len(lastOp.before) :
        /\ Canonical(lastOp.before[i].show_name) = Canonical(lastOp.show_data.show_name)
        /\ Canonical(lastOp.before[i].theater_name)
               = Canonical(lastOp.show_data.theater_name)
        /\ lastOp.before[i].date_attended = lastOp.show_data.date_attended}

\* C1: add_show of an entry with a date, whose names differ from a stored record's
\* only in letter case, punctuation or whitespace runs and whose date equals that
\* record's, returns 'duplicate' and the id of such a record.
C1_VariantIsDuplicate ==
    (AddedShow /\ lastOp.show_data.date_attended \notin NoDate
               /\ SameButForWriting # {})
        => (lastOp.status = "duplicate" /\ lastOp.id \in SameButForWriting)

\* C2: add_show of an entry with no date (absent or empty) returns 'duplicate'
\* whenever a stored record matches its normalized names, whatever that record's
\* date; the id returned is that of such a record.
C2_NoDateCollides ==
    (AddedShow /\ lastOp.show_data.date_attended \in NoDate /\ NameMatches # {})
        => (lastOp.status = "duplicate" /\ lastOp.raised = "none"
            /\ lastOp.id \in NameMatches)

\* an entry without a date met a stored record that has one
C2_Witness ==
    /\ AddedShow
    /\ lastOp.show_data.date_attended \in NoDate
    /\ \E i \in NameMatches : lastOp.before[i].date_attended = "2023-05-01"
    /\ lastOp.status = "duplicate"

\* C3: add_show of an entry with a date returns 'added' and stores a new record
\* whenever no stored record that matches its normalized names has that date;
\* the records stored before stay as they were.
C3_OtherDateIsAdded ==
    (AddedShow /\ lastOp.show_data.date_attended \notin NoDate
               /\ \A i \in NameMatches :
                     lastOp.before[i].date_attended # lastOp.show_data.date_attended)
        => /\ lastOp.status = "added"
           /\ lastOp.raised = "none"
           /\ Len(store) = Len(lastOp.before) + 1
           /\ lastOp.id = Len(store)
           /\ store[lastOp.id].show_name = lastOp.show_data.show_name
           /\ store[lastOp.id].theater_name = lastOp.show_data.theater_name
           /\ store[lastOp.id].date_attended = lastOp.show_data.date_attended
           /\ SubSeq(store, 1, Len(lastOp.before)) = lastOp.before

\* an entry with a date met the one stored record of its names, which has no
\* date; and an entry met a record of its names with another date
C3_Witness ==
    /\ AddedShow
    /\ lastOp.show_data.date_attended = "2023-05-01"
    /\ Len(lastOp.before) = 1
    /\ NameMatches = {1}
    /\ lastOp.before[1].date_attended = "NULL"
    /\ lastOp.status = "added"
    /\ Len(store) = 2

\* C4: when add_show returns 'duplicate' the store is as it was before the call,
\* last_updated of every record included, and no prompt went to the provider.
C4_DuplicateWritesNothing ==
    (AddedShow /\ lastOp.status = "duplicate")
        => (store = lastOp.before /\ lastOp.requests = <<>> /\ lastOp.matches = 0)

\* a duplicate was found by a call that enriches what it adds, and the record
\* found has fields to enrich
C4_Witness ==
    /\ AddedShow
    /\ lastOp.status = "duplicate"
    /\ should_enrich(lastOp.auto_enrich, config)
    /\ missing_fields_of(_row_to_dict(lastOp.before[lastOp.id])) # <<>>
    /\ store = lastOp.before

----------------------------------------------------------------------------
(* Properties of normalize_string, over the runs of SpecNorm *)

\* C5: normalize_string is idempotent: normalizing a normalized text returns it.
C5_NormalizeIdempotent ==
    lastOp.op = "normalize_again" => lastOp.twice = lastOp.once

\* C6: two texts that differ only in the case of a letter, in a punctuation
\* character, or in the length or the place of a whitespace run normalize to the
\* same text.
C6_VariantsNormalizeEqual ==
    lastOp.op = "normalize_pair" => lastOp.of_s = lastOp.of_t

----------------------------------------------------------------------------
(* Properties of enrich_show, over the runs of SpecEnrich *)

\* enrich_show was the last operation, on a record of the store
EnrichedShow == lastOp.op = "enrich_show" /\ lastOp.id \in 1..Len(lastOp.before)

\* the record as enrich_show read it, and as the store holds it now
ShowBefore == _row_to_dict(lastOp.before[lastOp.id])
ShowAfter == _row_to_dict(store[lastOp.id])

\* the enrichable fields of the record that were populated when it was read
PopulatedBefore == {f \in EnrichableSet : ~IsMissing(ShowBefore[f])}

\* C7: enrich_show(id, force=False) on a record whose enrichable fields are all
\* populated sends no prompt to the provider, writes nothing and returns the
\* record as it is.
C7_PopulatedIsLeftAlone ==
    (EnrichedShow /\ ~lastOp.force /\ PopulatedBefore = EnrichableSet)
        => /\ lastOp.requests = <<>>
           /\ lastOp.matches = 0
           /\ store = lastOp.before
           /\ lastOp.raised = "none"
           /\ lastOp.ret = {ShowBefore}

C7_Witness ==
    /\ EnrichedShow
    /\ ~lastOp.force
    /\ PopulatedBefore = EnrichableSet
    /\ config.user_categories
    /\ lastOp.ret = {ShowBefore}

\* C8: enrich_show(id, force=True) on an existing record sends exactly one
\* enrichment prompt, and that prompt names every field of the full prompt,
\* whatever fields of the record are populated.
C8_ForceAsksEverything ==
    (EnrichedShow /\ lastOp.force) => lastOp.requests = <<full_prompt_fields>>

\* force on a record of which some fields are populated and some are not
C8_Witness ==
    /\ EnrichedShow
    /\ lastOp.force
    /\ "director" \in PopulatedBefore
    /\ "llm_categories" \notin PopulatedBefore
    /\ Len(lastOp.requests) = 1

\* C9: in enrich_show(id, force=False) a key of the answer enters the update set
\* only if it is a field that was missing in the record as read at the start, and
\* a field that was populated then keeps its value.
C9_OnlyMissingAreWritten ==
    (EnrichedShow /\ ~lastOp.force)
        => /\ DOMAIN lastOp.accepted \subseteq (EnrichableSet \ PopulatedBefore)
           /\ DOMAIN lastOp.updates \subseteq
                  (DOMAIN lastOp.accepted \cup {"user_categories"})
           /\ \A f \in PopulatedBefore : ShowAfter[f] = ShowBefore[f]

\* the answer gave another value for a populated field and a value for a missing
\* one: the first was discarded, the second written
C9_Witness ==
    /\ EnrichedShow
    /\ ~lastOp.force
    /\ lastOp.answer = Object(Compliant(EnrichableSet, 2))
    /\ ShowBefore["director"] = "s1"
    /\ ShowAfter["director"] = "s1"
    /\ IsMissing(ShowBefore["llm_categories"])
    /\ ShowAfter["llm_categories"] = "l2"
    /\ lastOp.raised = "none"

\* C10: if the category prompt fails during enrich_show, the fields accepted from
\* the enrichment answer in the same call are persisted and enrich_show returns.
C10_MatchFailureStillPersists ==
    (EnrichedShow /\ lastOp.matches = 1 /\ lastOp.cats_answer = "error")
        => /\ lastOp.raised = "none"
           /\ \A k \in DOMAIN lastOp.accepted :
                 store[lastOp.id][k] = ToColumn(k, lastOp.accepted[k])

----------------------------------------------------------------------------
(* Properties of add_show's enrichment, over the runs of SpecEnrich *)

\* the record add_show inserted holds what the caller supplied
HoldsSupplied ==
    \A c \in DOMAIN lastOp.show_data :
        store[lastOp.id][c] = ToColumn(c, lastOp.show_data[c])

\* C11: if the enrichment attempted inside add_show raises, add_show still returns
\* (id, 'added') and the record it inserted stays in the store with the fields
\* the caller supplied.
C11_EnrichFailureKeepsRecord ==
    (AddedShow /\ lastOp.enrich_raised \notin {"not called", "none"})
        => /\ lastOp.raised = "none"
           /\ lastOp.status = "added"
           /\ lastOp.id = Len(lastOp.before) + 1
           /\ Len(store) = lastOp.id
           /\ SubSeq(store, 1, Len(lastOp.before)) = lastOp.before
           /\ HoldsSupplied

\* the store rejected the enrichment's update, and the answer was no object
C11_Witness ==
    /\ AddedShow
    /\ lastOp.enrich_raised = "ProgrammingError"
    /\ lastOp.status = "added"
    /\ Len(store) = Len(lastOp.before) + 1
    /\ HoldsSupplied

\* the effective auto-enrich setting as the contract words it: the argument if
\* it is given, else the configured value, else on
EffectiveAutoEnrich ==
    CASE lastOp.auto_enrich # "None" -> lastOp.auto_enrich = "True"
      [] config.auto_enrich # "absent" -> config.auto_enrich = "True"
      [] OTHER -> TRUE

\* C12: add_show runs the enrichment after an insert exactly when the effective
\* auto-enrich setting is on; with auto_enrich=False no prompt goes to the
\* provider, whatever is configured.
C12_EnrichIffEffective ==
    AddedShow =>
        /\ lastOp.status = "added" =>
              /\ (lastOp.enrich_raised # "not called") = EffectiveAutoEnrich
              /\ (Len(lastOp.requests) = 1) = EffectiveAutoEnrich
        /\ lastOp.auto_enrich = "False" =>
              (lastOp.requests = <<>> /\ lastOp.matches = 0)

\* the argument decided against the configuration, both ways
C12_Witness ==
    /\ AddedShow
    /\ lastOp.status = "added"
    /\ lastOp.auto_enrich = "True"
    /\ config.auto_enrich = "False"
    /\ Len(lastOp.requests) = 1

----------------------------------------------------------------------------
(* Properties of enrich_show when the provider fails, over SpecEnrich *)

\* whether the category prompt applies to the record as read: a plot_summary is
\* stored and a category list is configured
MatchingApplies == Truthy(ShowBefore["plot_summary"]) /\ config.user_categories

----------------------------------------------------------------------------
(* The response parser of _enrich_show_info, _match_user_categories and     *)
(* extract_shows_from_image: the text is stripped, a leading code fence is  *)
(* taken off, and the rest goes to json.loads.  Texts are sequences of      *)
(* characters.                                                              *)

\* longest response text drawn
MaxJson == 5

\* the grave accent, written as a word since a string of the model cannot hold it
Backtick == "backtick"
\* the code fence: three grave accents
Fence == <<Backtick, Backtick, Backtick>>
JsonTag == <<"j", "s", "o", "n">>

\* str.startswith
StartsWith(s, prefix) ==
    Len(s) >= Len(prefix) /\ SubSeq(s, 1, Len(prefix)) = prefix

\* str.find of the fence in s from position i on: its place, 0 when there is none
FindFence(s, i) ==
    LET hits == {j \in i..(Len(s) - 2) : SubSeq(s, j, j + 2) = Fence}
    IN  IF hits = {} THEN 0 ELSE CHOOSE j \in hits : \A k \in hits : j <= k

\* content.split(fence)[1] for a content that starts with the fence: what lies
\* between the first fence and the next one, or the end
SplitSecond(content) ==
    LET next == FindFence(content, 4)
    IN  IF next = 0 THEN SubSeq(content, 4, Len(content))
        ELSE SubSeq(content, 4, next - 1)

\* the cleaning: the strip of the text received, then the fence removal
clean_content(text) ==
    LET content == Strip(text)
    IN  IF StartsWith(content, Fence)
        THEN LET part == SplitSecond(content)
             IN  Strip(IF StartsWith(part, JsonTag)
                       THEN SubSeq(part, 5, Len(part))
                       ELSE part)
        ELSE content

\* json.loads on the texts of the model: whitespace around an empty object or a
\* string without escapes; any other text raises JSONDecodeError
json_loads(text) ==
    LET t == Strip(text)
        n == Len(t)
    IN  IF n >= 2 /\ t[1] = "{" /\ t[n] = "}"
              /\ \A i \in 2..(n - 1) : t[i] \in Whitespace
        THEN [ok |-> TRUE, value |-> <<"object">>]
        ELSE IF n >= 2 /\ t[1] = "\"" /\ t[n] = "\""
                   /\ \A i \in 2..(n - 1) : t[i] \notin {"\"", "\\", "\t", "\n"}
        THEN [ok |-> TRUE, value |-> <<"string", SubSeq(t, 2, n - 1)>>]
        ELSE [ok |-> FALSE]

\* the parse of a response text
parse_response(text) == json_loads(clean_content(text))

\* a text inside a code fence, with the tag given (none, or json)
Fenced(text, tag) == Fence \o tag \o <<"\n">> \o text \o <<"\n">> \o Fence

JsonChars == {"\"", Backtick, "{", "}", " "}
ResponseTexts == UNION {[1..k -> JsonChars] : k \in 0..MaxJson}

InitParse ==
    /\ store = <<>>
    /\ config = [auto_enrich |-> "absent", user_categories |-> FALSE]
    /\ nops = 0
    /\ \E text \in ResponseTexts : lastOp = [op |-> "response", text |-> text]
    /\ processed_images = NoMarks
    /\ procs = NoCall

ParsePlain ==
    /\ lastOp.op = "response"
    /\ lastOp' = [op |-> "parse", text |-> lastOp.text,
                  cleaned |-> clean_content(lastOp.text),
                  result |-> parse_response(lastOp.text)]
    /\ nops' = nops + 1
    /\ UNCHANGED <<store, config, processed_images, procs>>

ParseFenced(tag) ==
    /\ lastOp.op = "response"
    /\ lastOp' = [op |-> "parse_fenced", text |-> lastOp.text, tag |-> tag,
                  plain |-> json_loads(lastOp.text),
                  fenced |-> parse_response(Fenced(lastOp.text, tag))]
    /\ nops' = nops + 1
    /\ UNCHANGED <<store, config, processed_images, procs>>

NextParse ==
    \/ ParsePlain
    \/ ParseFenced(<<>>)
    \/ ParseFenced(JsonTag)

SpecParse == InitParse /\ [][NextParse]_vars

\* C14: for every valid JSON text, parsing the text inside a code fence, with or
\* without the json tag, gives the value of parsing the text itself, also when
\* the text holds the fence marker inside a string; and a text that is not JSON
\* after the cleaning fails to parse.
C14_FenceRoundTrip ==
    /\ (lastOp.op = "parse_fenced" /\ lastOp.plain.ok)
          => lastOp.fenced = lastOp.plain
    /\ lastOp.op = "parse"
          => (lastOp.result.ok = json_loads(lastOp.cleaned).ok)

----------------------------------------------------------------------------
(* Properties of the store's writes *)

\* C15: update_show called with an id that is not in the store fails with a
\* not-found error and leaves the store unchanged.  (Over the runs of Spec.)
C15_UpdateOfMissingFails ==
    (lastOp.op = "update_show" /\ lastOp.id \notin 1..Len(lastOp.before))
        => (lastOp.raised # "none" /\ store = lastOp.before)

(* Database on its own: add_show and update_show called directly, with      *)
(* sequence-valued fields among the values.                                 *)

StoreShows ==
    LET base == [show_name : {<<"a">>}, theater_name : {<<"t">>},
                 date_attended : {"NULL", "2023-05-01"}, seen_status : {"seen"}]
    IN  base \cup {[c \in DOMAIN b \cup {"lead_cast"} |->
                       IF c = "lead_cast" THEN v ELSE b[c]] :
                   b \in base, v \in {"[]", "l1"}}

StoreUpdates ==
    {[k \in {"lead_cast"} |-> v] : v \in {"[]", "l2", "s1"}}
    \cup {[k \in {"themes"} |-> v] : v \in {"l1", "s1"}}
    \cup {[k \in {"director"} |-> v] : v \in {"s1", "l1"}}
    \cup {[k \in {"date_attended"} |-> "2023-05-01"], [k \in {"seen_status"} |-> "s1"]}

InitStore ==
    /\ store = <<>>
    /\ config = [auto_enrich |-> "absent", user_categories |-> FALSE]
    /\ nops = 0
    /\ lastOp = [op |-> "init"]
    /\ processed_images = NoMarks
    /\ procs = NoCall

DbAddShow(show_data) ==
    /\ nops < MaxOps
    /\ LET r == db_add_show(store, show_data, Now)
       IN
        /\ Len(r.rows) <= MaxShows
        /\ store' = r.rows
        /\ nops' = nops + 1
        /\ lastOp' = [op |-> "db_add_show", before |-> store, show_data |-> show_data,
                      raised |-> r.raised, id |-> r.id]
        /\ UNCHANGED <<config, processed_images, procs>>

DbUpdateShow(show_id, updates) ==
    /\ nops < MaxOps
    /\ LET r == db_update_show(store, show_id, updates, Now)
       IN
        /\ store' = r.rows
        /\ nops' = nops + 1
        /\ lastOp' = [op |-> "db_update_show", before |-> store, id |-> show_id,
                      updates |-> updates, raised |-> r.raised]
        /\ UNCHANGED <<config, processed_images, procs>>

NextStore ==
    \/ \E show_data \in StoreShows : DbAddShow(show_data)
    \/ \E show_id \in ShowIds, updates \in StoreUpdates : DbUpdateShow(show_id, updates)

SpecStore == InitStore /\ [][NextStore]_vars

\* the rows before the last insert that hold the triple of the new row
SameTriple ==
    {i \in 1..Len(lastOp.before) :
        /\ lastOp.before[i].show_name = lastOp.show_data.show_name
        /\ lastOp.before[i].theater_name = lastOp.show_data.theater_name
        /\ lastOp.before[i].date_attended = lastOp.show_data.date_attended}

\* C16: Database.add_show fails with a uniqueness violation and inserts no row
\* whenever the store holds a row with the same (show_name, theater_name,
\* date_attended), also when date_attended is absent in both.
C16_SameTripleIsRejected ==
    (lastOp.op = "db_add_show" /\ SameTriple # {})
        => (lastOp.raised = "IntegrityError" /\ store = lastOp.before)

\* what the last write of Database gave for its columns, and the id it wrote
Written ==
    IF lastOp.op = "db_add_show" THEN lastOp.show_data ELSE lastOp.updates
WroteRow ==
    /\ lastOp.op \in {"db_add_show", "db_update_show"}
    /\ lastOp.raised = "none"
    /\ lastOp.id \in 1..Len(store)

\* the texts of the model that do not decode as JSON
Undecodable == {"s1", "s2"}

\* C17: a sequence written to a sequence-valued field by add_show or update_show
\* is returned by get_show as the same sequence, and a stored text that does not
\* decode as JSON is returned as the empty sequence.  (Over the runs of SpecStore.)
C17_SequencesRoundTrip ==
    /\ WroteRow =>
          \A f \in DOMAIN Written \cap json_fields :
              Written[f] \in Lists =>
                  \A show \in get_show(store, lastOp.id) : show[f] = Written[f]
    /\ \A i \in 1..Len(store) :
          /\ get_show(store, i) # {}
          /\ \A f \in json_fields :
                store[i][f] \in Undecodable =>
                    \A show \in get_show(store, i) : show[f] = "[]"

\* a list written by add_show is read back, next to a text that does not decode
C17_Witness ==
    /\ lastOp.op = "db_update_show"
    /\ WroteRow
    /\ lastOp.id = 1
    /\ lastOp.updates = [k \in {"themes"} |-> "s1"]
    /\ store[1].lead_cast = "json:l1"
    /\ store[1].themes = "s1"
    /\ \E show \in get_show(store, 1) : show.lead_cast = "l1" /\ show.themes = "[]"

----------------------------------------------------------------------------
(* Properties of enrich_show's update set, over the runs of SpecEnrich *)

\* C18: enrich_show(id, force=True) takes every key of the provider's answer into
\* the update set and persists it: the call returns, and the record it returns
\* carries the answer's value for every key of the answer.
C18_ForcePersistsEveryKey ==
    (EnrichedShow /\ lastOp.force /\ lastOp.answer.kind = "object")
        => /\ lastOp.raised = "none"
           /\ DOMAIN lastOp.accepted = DOMAIN lastOp.answer.data
           /\ lastOp.ret = {ShowAfter}
           /\ \A k \in DOMAIN lastOp.answer.data :
                 ShowAfter[k] = lastOp.answer.data[k]

\* a plot_summary is at hand: the answer of this call gives one, or one is stored
PlotSummaryAvailable ==
    \/ /\ lastOp.answer.kind = "object"
       /\ "plot_summary" \in DOMAIN lastOp.answer.data
       /\ Truthy(lastOp.answer.data["plot_summary"])
    \/ Truthy(ShowBefore["plot_summary"])

\* C19: in an enrich_show call that gets past the missing-field short-circuit, if
\* a plot_summary is at hand and categories are configured, the category prompt
\* is sent exactly once and user_categories of the record becomes its result
\* (the empty sequence when it fails), with and without force; otherwise the
\* category prompt is not sent.
C19_MatchingReplacesUserCategories ==
    (EnrichedShow /\ Len(lastOp.requests) = 1)
        => IF PlotSummaryAvailable /\ config.user_categories
           THEN /\ lastOp.matches = 1
                /\ lastOp.raised = "none"
                /\ ShowAfter["user_categories"]
                       = _match_user_categories(lastOp.cats_answer)
           ELSE lastOp.matches = 0

\* C20: every record of the store has a show_name, a theater_name and a
\* seen_status that is 'seen' or 'wishlist'; date_added and last_updated hold
\* clock readings.
C20_CoreAttributesPresent ==
    \A i \in 1..Len(store) :
        /\ store[i].show_name # NoName
        /\ store[i].theater_name # NoName
        /\ store[i].seen_status \in {"seen", "wishlist"}
        /\ store[i].date_added \in 1..(2 * nops)
        /\ store[i].last_updated \in 1..(2 * nops)

----------------------------------------------------------------------------
(* Properties of enrich_show's frame and of its missing-field set, over    *)
(* the runs of SpecEnrich                                                  *)

\* the attributes a caller of enrich_show never asks the provider for
CallerAttributes ==
    {"id", "show_name", "theater_name", "date_attended", "seen_status", "rating",
     "personal_notes", "source_image_path", "date_added"}

\* C23: enrich_show, with and without force and whatever the provider answers,
\* leaves id, show_name, theater_name, date_attended, seen_status, rating,
\* personal_notes, source_image_path and date_added of the record as they were,
\* and changes no other record.
C23_CallerAttributesUntouched ==
    EnrichedShow
        => /\ Len(store) = Len(lastOp.before)
           /\ \A c \in CallerAttributes :
                 store[lastOp.id][c] = lastOp.before[lastOp.id][c]
           /\ \A i \in 1..Len(store) : i # lastOp.id => store[i] = lastOp.before[i]

\* C24: for a record add_show has just created from show_name, theater_name and
\* seen_status alone, the enrichment add_show runs finds every enrichable field
\* missing: its one prompt names the whole list of enrichable fields, in
\* declaration order, is_revival included.
C24_NewRecordMissesEverything ==
    (AddedShow /\ lastOp.status = "added" /\ Len(lastOp.requests) = 1)
        => lastOp.requests[1] = enrichable_fields

\* C30: enrich_show(id, force=False) on a record whose llm_categories is missing
\* sends an enrichment prompt that names llm_categories, and when the answer has
\* exactly the keys of the documented JSON shape the call returns with
\* llm_categories not in the update set and still missing in the record; the same
\* holds of the enrichment add_show runs.  So the call that makes no prompt is
\* not reached by answers of the documented shape.
C30_CategoriesKeyIsNeverStored ==
    /\ (EnrichedShow /\ ~lastOp.force /\ IsMissing(ShowBefore["llm_categories"]))
          => /\ Len(lastOp.requests) = 1
             /\ "llm_categories" \in Range(lastOp.requests[1])
             /\ lastOp.answer = DocumentedAnswer
                   => /\ lastOp.raised = "none"
                      /\ "llm_categories" \notin DOMAIN lastOp.updates
                      /\ IsMissing(ShowAfter["llm_categories"])
    /\ (AddedShow /\ lastOp.status = "added" /\ lastOp.answer = DocumentedAnswer)
          => /\ lastOp.enrich_raised = "none"
             /\ IsMissing(store[lastOp.id]["llm_categories"])

\* a second answer of the documented shape, for a record that an answer of that
\* shape has filled: llm_categories alone is asked for, and stays missing
C30_Witness ==
    /\ EnrichedShow
    /\ ~lastOp.force
    /\ lastOp.requests = << <<"llm_categories">> >>
    /\ ShowBefore["director"] = "s1"
    /\ lastOp.answer = DocumentedAnswer
    /\ lastOp.raised = "none"
    /\ IsMissing(ShowAfter["llm_categories"])

----------------------------------------------------------------------------
(* Longer runs of add_show and update_show without the provider: add_show  *)
(* is called with auto_enrich=False.  SpecAdds runs add_show alone,        *)
(* SpecDup runs both.                                                      *)

\* operations in one of these runs
MaxDupOps == 3

\* update_show of the date
DateUpdates == {[k \in {"date_attended"} |-> d] : d \in {"2023-05-01", "2024-01-01"}}

InitDup ==
    /\ store = <<>>
    /\ config = [auto_enrich |-> "absent", user_categories |-> FALSE]
    /\ nops = 0
    /\ lastOp = [op |-> "init"]
    /\ processed_images = NoMarks
    /\ procs = NoCall

\* add_show(show_data, auto_enrich=False)
AddShowPlain(show_data) ==
    /\ nops < MaxDupOps
    /\ AddShowDone(show_data, "False", Unused, "unused", AddShowAlone(show_data, "False"))

UpdateShowPlain(show_id, updates) ==
    /\ nops < MaxDupOps
    /\ UpdateShowDone(show_id, updates)

NextAdds == \E show_data \in ShowInputs : AddShowPlain(show_data)

SpecAdds == InitDup /\ [][NextAdds]_vars

NextDup ==
    \/ \E show_data \in ShowInputs : AddShowPlain(show_data)
    \/ \E show_id \in ShowIds, updates \in DateUpdates : UpdateShowPlain(show_id, updates)

SpecDup == InitDup /\ [][NextDup]_vars

\* the rows before the last add_show that its entry duplicates: the names match,
\* and the dates are equal if the entry has one
Matches ==
    {i \in NameMatches :
        \/ lastOp.show_data.date_attended \in NoDate
        \/ lastOp.before[i].date_attended = lastOp.show_data.date_attended}

\* C25: when several stored records match the entry of add_show, the id reported
\* as duplicate is that of the matching record added last (the first of the
\* listing by date_added descending), not that of the oldest.
C25_LatestMatchIsReported ==
    (AddedShow /\ Matches # {})
        => /\ lastOp.status = "duplicate"
           /\ lastOp.id \in Matches
           /\ \A j \in Matches :
                 lastOp.before[j].date_added <= lastOp.before[lastOp.id].date_added

\* two records match, and the second one added is reported
C25_Witness ==
    /\ AddedShow
    /\ Cardinality(Matches) = 2
    /\ lastOp.status = "duplicate"
    /\ lastOp.id = 2
    /\ lastOp.before[1].date_added < lastOp.before[2].date_added

\* two rows of the store are of the same normalized (show, theater) pair
SamePair(i, j) ==
    /\ NameOf(store[i]) = NameOf(store[j])
    /\ TheaterOf(store[i]) = TheaterOf(store[j])

\* C26: after add_show calls alone, from an empty store, no two records have
\* equal normalized show_name, equal normalized theater_name and equal
\* date_attended; of a normalized pair at most one record has no date, and that
\* record is the first one created for the pair.
C26_AddsKeepIdentity ==
    \A i, j \in 1..Len(store) :
        (i # j /\ SamePair(i, j))
            => /\ store[i].date_attended # store[j].date_attended
               /\ ~(store[i].date_attended \in NoDate /\ store[j].date_attended \in NoDate)
               /\ store[i].date_attended \in NoDate => store[i].date_added < store[j].date_added

\* a pair with a dateless first record and a dated second one, after a dateless
\* entry of the pair in other letter case was found to be a duplicate
C26_Witness ==
    /\ Len(store) = 2
    /\ SamePair(1, 2)
    /\ store[1].date_attended \in NoDate
    /\ store[2].date_attended = "2023-05-01"
    /\ AddedShow
    /\ lastOp.status = "duplicate"
    /\ lastOp.show_data.show_name = <<"A">>
    /\ lastOp.show_data.date_attended = "NULL"

\* update_show was the last operation, it set the date of a record of the store
UpdatedDate ==
    /\ lastOp.op = "update_show"
    /\ lastOp.id \in 1..Len(lastOp.before)
    /\ DOMAIN lastOp.updates = {"date_attended"}

\* another row held the record's own names, letter for letter, with the new date
ExactCollision ==
    \E i \in 1..Len(lastOp.before) :
        /\ i # lastOp.id
        /\ lastOp.before[i].show_name = lastOp.before[lastOp.id].show_name
        /\ lastOp.before[i].theater_name = lastOp.before[lastOp.id].theater_name
        /\ lastOp.before[i].date_attended = lastOp.updates.date_attended

\* C27: update_show of a record's date is rejected only by the uniqueness
\* constraint on the exact strings: it raises and writes nothing if another
\* record has the same show_name, theater_name and the new date letter for
\* letter, and otherwise it writes the date, also when another record of the
\* same normalized pair already has that date.
C27_UpdateIgnoresFindDuplicate ==
    UpdatedDate =>
        IF ExactCollision
        THEN lastOp.raised = "IntegrityError" /\ store = lastOp.before
        ELSE /\ lastOp.raised = "none"
             /\ store[lastOp.id].date_attended = lastOp.updates.date_attended
             /\ Len(store) = Len(lastOp.before)

\* two records whose names differ in letter case and whose dates differed have,
\* after the update, equal normalized names and equal dates
C27_Witness ==
    /\ UpdatedDate
    /\ lastOp.raised = "none"
    /\ Len(store) = 2
    /\ store[1].show_name # store[2].show_name
    /\ SamePair(1, 2)
    /\ lastOp.before[1].date_attended # lastOp.before[2].date_attended
    /\ lastOp.before[1].date_attended \notin NoDate
    /\ lastOp.before[2].date_attended \notin NoDate
    /\ store[1].date_attended = store[2].date_attended

----------------------------------------------------------------------------
(* add_show run by two processes on one database.  A call is two accesses  *)
(* to the store, each a connection of its own: the listing find_duplicate  *)
(* reads, and the INSERT of Database.add_show.  The calls are made with    *)
(* auto_enrich=False.  procs[p] is where the call of process p stands:     *)
(* "idle" before it, "found" after find_duplicate returned None, "done"    *)
(* after it returned or raised; found_at and inserted_at are the readings  *)
(* of the clock at its two accesses.                                       *)

RaceShows ==
    [show_name : {<<"a">>}, theater_name : {<<"t">>},
     date_attended : {"NULL", "", "2023-05-01"}, seen_status : {"seen"}]
    \cup [show_name : {<<"a">>}, theater_name : {<<"u">>},
          date_attended : {"NULL"}, seen_status : {"wishlist"}]

InitRace ==
    /\ store = <<>>
    /\ config = [auto_enrich |-> "absent", user_categories |-> FALSE]
    /\ nops = 0
    /\ lastOp = [op |-> "init"]
    /\ processed_images = NoMarks
    /\ procs = NoCall

\* lines 356-364: find_duplicate, and the return of the duplicate found
FindDuplicateStep(p, show_data) ==
    /\ procs[p].pc = "idle"
    /\ LET duplicate == find_duplicate(store, show_data.show_name,
                                       show_data.theater_name, show_data.date_attended)
       IN  procs' = [procs EXCEPT ![p] =
               IF duplicate # 0
               THEN [pc |-> "done", show_data |-> show_data, status |-> "duplicate",
                     id |-> duplicate, raised |-> "none", found_at |-> Now,
                     inserted_at |-> 0]
               ELSE [pc |-> "found", show_data |-> show_data, found_at |-> Now]]
    /\ nops' = nops + 1
    /\ UNCHANGED <<store, config, lastOp, processed_images>>

\* lines 366-367 and 378: the insert, and the return of the new id
InsertStep(p) ==
    /\ procs[p].pc = "found"
    /\ LET inserted == db_add_show(store, procs[p].show_data, Now)
       IN  /\ store' = inserted.rows
           /\ procs' = [procs EXCEPT ![p] =
                  [pc |-> "done", show_data |-> procs[p].show_data,
                   status |-> IF inserted.raised = "none" THEN "added" ELSE "none",
                   id |-> inserted.id, raised |-> inserted.raised,
                   found_at |-> procs[p].found_at, inserted_at |-> Now]]
    /\ nops' = nops + 1
    /\ UNCHANGED <<config, lastOp, processed_images>>

NextRace ==
    \/ \E p \in Procs, show_data \in RaceShows : FindDuplicateStep(p, show_data)
    \/ \E p \in Procs : InsertStep(p)

SpecRace == InitRace /\ [][NextRace]_vars

\* both calls are over, for the same show_name and theater_name, and each had
\* completed find_duplicate before either inserted
BothFoundThenInserted ==
    /\ \A p \in Procs : procs[p].pc = "done" /\ procs[p].inserted_at > 0
    /\ \A p, q \in Procs : procs[p].found_at < procs[q].inserted_at
    /\ procs[1].show_data.show_name = procs[2].show_data.show_name
    /\ procs[1].show_data.theater_name = procs[2].show_data.theater_name

\* the process that inserted first, and the other one
FirstInserter == CHOOSE p \in Procs : \A q \in Procs : procs[p].inserted_at <= procs[q].inserted_at
SecondInserter == CHOOSE p \in Procs : p # FirstInserter

\* C28: when two processes run add_show for the same show_name and theater_name
\* and both complete find_duplicate before either inserts, then with no
\* date_attended both return 'added' and the store ends with two records of the
\* pair, and with the same date_attended string in both the first insert is done
\* and the second fails with a uniqueness error.
C28_CheckThenInsertRaces ==
    BothFoundThenInserted =>
        LET d1 == procs[1].show_data.date_attended
            d2 == procs[2].show_data.date_attended
        IN  /\ (d1 = "NULL" /\ d2 = "NULL")
                  => /\ \A p \in Procs : procs[p].status = "added" /\ procs[p].raised = "none"
                     /\ procs[1].id # procs[2].id
                     /\ Len(store) = 2
                     /\ \A i \in 1..2 :
                           /\ store[i].show_name = procs[1].show_data.show_name
                           /\ store[i].theater_name = procs[1].show_data.theater_name
                           /\ store[i].date_attended = "NULL"
            /\ (d1 = d2 /\ d1 # "NULL")
                  => /\ procs[FirstInserter].status = "added"
                     /\ procs[SecondInserter].raised = "IntegrityError"
                     /\ Len(store) = 1

\* both calls returned 'added' for one dateless pair
C28_Witness ==
    /\ BothFoundThenInserted
    /\ procs[1].show_data.date_attended = "NULL"
    /\ procs[2].show_data.date_attended = "NULL"
    /\ procs[1].status = "added"
    /\ procs[2].status = "added"
    /\ Len(store) = 2
    /\ store[1].show_name = store[2].show_name
    /\ store[1].theater_name = store[2].theater_name

----------------------------------------------------------------------------
(* The scan command (src/show_tracker.py) over ImageProcessor               *)
(* (src/image_processor.py) and table processed_images.  The two image     *)
(* directories hold fixed files.  A scan is one operation; for every image *)
(* it passes to extract_shows_from_image it draws the provider's answer    *)
(* and the date the user types at the prompt.  Enrichment is configured    *)
(* off in these runs, and the user skips the rating and the notes.         *)

\* config['directories']
Directories == [shows_seen |-> "seen", shows_wishlist |-> "wish"]

\* config['settings']['image_extensions']
image_extensions == {".jpg", ".png"}

\* the files of the two directories, in the order iterdir lists them
Files ==
    << [path |-> "seen/p1.jpg", dir |-> "seen", suffix |-> ".jpg"],
       [path |-> "seen/notes.txt", dir |-> "seen", suffix |-> ".txt"],
       [path |-> "wish/p2.JPG", dir |-> "wish", suffix |-> ".JPG"] >>

\* str.lower of a suffix
LowerSuffix(x) == IF x = ".JPG" THEN ".jpg" ELSE x

\* Database.is_image_processed
is_image_processed(processed, image_path) == image_path \in DOMAIN processed

\* Database.mark_image_processed: INSERT OR REPLACE of the row of image_path
mark_image_processed(processed, image_path, shows_extracted) ==
    [p \in DOMAIN processed \cup {image_path} |->
        IF p = image_path THEN shows_extracted ELSE processed[p]]

\* a faulty variant: the marker is not looked at
scan_directory_unfiltered(processed, directory) ==
    LET IsImage(f) == f.dir = directory /\ LowerSuffix(f.suffix) \in image_extensions
        found == SelectSeq(Files, IsImage)
    IN  [i \in 1..Len(found) |-> found[i].path]

\* ImageProcessor.scan_directory: the image files of the directory that have no
\* marker, as paths
scan_directory(processed, directory) ==
    LET IsNew(f) == /\ f.dir = directory
                    /\ LowerSuffix(f.suffix) \in image_extensions
                    /\ ~is_image_processed(processed, f.path)
        found == SelectSeq(Files, IsNew)
    IN  [i \in 1..Len(found) |-> found[i].path]

\* ImageProcessor.get_seen_status_from_directory
get_seen_status_from_directory(image_path) ==
    IF \E i \in 1..Len(Files) :
          Files[i].path = image_path /\ Files[i].dir = Directories.shows_seen
    THEN "seen"
    ELSE "wishlist"

(* The provider's answer to the extraction prompt is                       *)
(*   [kind |-> "error"]: the call threw or its text is not JSON,           *)
(*   [kind |-> "list", shows |-> a sequence of entries], or                *)
(*   [kind |-> "object"]: JSON text of a non-empty object;                 *)
(* [kind |-> "unreadable"] stands for an image file that cannot be opened, *)
(* which extract_shows_from_image finds before its try and lets escape.    *)
(* An entry of a list is a mapping; one without theater_name is malformed. *)

\* a faulty variant: a failed call is not turned into the empty list
extract_shows_from_image_unguarded(answer) == answer

\* ShowManager.extract_shows_from_image: the decoded answer, [] on any exception
\* of the provider call and of the parsing; a value of kind "error" or
\* "unreadable" is an exception that leaves it
extract_shows_from_image(answer) ==
    IF answer.kind = "error" THEN [kind |-> "list", shows |-> <<>>] ELSE answer

\* the clock at an insert of a scan: the inserts of scans are the only writes of
\* these runs, so the reading is the rank of the insert
InsertTime(rows) == Len(rows) + 1

\* lines 101-145 of scan: the loop over the shows of one image.  It returns the
\* rows, the exception that left the loop and shows_added.
RECURSIVE add_extracted(_, _, _, _, _, _)
add_extracted(rows, settings, shows, seen_status, image_path, date_typed) ==
    IF shows = <<>> THEN [rows |-> rows, raised |-> "none", shows_added |-> 0]
    ELSE
    LET show_data == Head(shows)
    IN  IF ~({"show_name", "theater_name"} \subseteq DOMAIN show_data)
        THEN [rows |-> rows, raised |-> "KeyError", shows_added |-> 0]
        ELSE
        LET show_entry ==
                [show_name |-> show_data.show_name,
                 theater_name |-> show_data.theater_name,
                 seen_status |-> seen_status,
                 source_image_path |-> image_path,
                 date_attended |-> IF seen_status = "seen" /\ date_typed # ""
                                   THEN date_typed ELSE "NULL"]
            r == add_show(rows, settings, show_entry, "None", Unused, "unused",
                          InsertTime(rows), InsertTime(rows))
        IN  IF r.raised # "none"
            THEN [rows |-> r.rows, raised |-> r.raised, shows_added |-> 0]
            ELSE
            LET rest == add_extracted(r.rows, settings, Tail(shows), seen_status,
                                      image_path, date_typed)
            IN  [rows |-> rest.rows, raised |-> rest.raised,
                 shows_added |-> rest.shows_added
                                 + (IF r.status = "added" THEN 1 ELSE 0)]

\* lines 84-152 of scan: one image.  st holds the rows, the table of markers, the
\* images passed to extraction so far and those whose processing raised.
process_image(st, settings, image_path, answer, date_typed) ==
    LET shows == extract_shows_from_image(answer)
        passed == [st EXCEPT !.extracted = Append(@, image_path)]
    IN  IF shows.kind \in {"error", "unreadable"}
        THEN [passed EXCEPT !.errors = @ \cup {image_path}]
        ELSE IF shows.kind = "list" /\ shows.shows = <<>>
        THEN [passed EXCEPT
                 !.processed = mark_image_processed(@, image_path, 0)]
        ELSE IF shows.kind = "object"
        THEN [passed EXCEPT !.errors = @ \cup {image_path}]
        ELSE
        LET r == add_extracted(st.rows, settings, shows.shows,
                               get_seen_status_from_directory(image_path),
                               image_path, date_typed)
        IN  IF r.raised # "none"
            THEN [passed EXCEPT !.rows = r.rows, !.errors = @ \cup {image_path}]
            ELSE [passed EXCEPT
                     !.rows = r.rows,
                     !.processed = mark_image_processed(@, image_path, r.shows_added)]

\* the loop of line 84 over the unprocessed images of one directory
RECURSIVE process_images(_, _, _, _, _)
process_images(st, settings, images, answers, dates) ==
    IF images = <<>> THEN st
    ELSE process_images(
             process_image(st, settings, Head(images), answers[Head(images)],
                           dates[Head(images)]),
             settings, Tail(images), answers, dates)

\* the loop of line 74 over the directories: each is listed when its turn comes
RECURSIVE scan_directories(_, _, _, _, _)
scan_directories(st, settings, directories, answers, dates) ==
    IF directories = <<>> THEN st
    ELSE scan_directories(
             process_images(st, settings,
                            scan_directory(st.processed, Head(directories)),
                            answers, dates),
             settings, Tail(directories), answers, dates)

\* scan(directory): lines 61-154
scan(rows, processed, settings, directory, answers, dates) ==
    LET directories == IF directory = "all"
                       THEN <<Directories.shows_seen, Directories.shows_wishlist>>
                       ELSE <<Directories[directory]>>
    IN  scan_directories([rows |-> rows, processed |-> processed,
                          extracted |-> <<>>, errors |-> {}],
                         settings, directories, answers, dates)

\* the entries the provider reads off an image: a show, the same show in other
\* letter case, and an entry without theater_name
Entry1 == [show_name |-> <<"a">>, theater_name |-> <<"t">>]
Entry2 == [show_name |-> <<"A">>, theater_name |-> <<"T">>]
Malformed == [show_name |-> <<"a">>]

List(shows) == [kind |-> "list", shows |-> shows]

ExtractionAnswers ==
    {[kind |-> "error"], [kind |-> "unreadable"], [kind |-> "object"], List(<<>>),
     List(<<Entry1>>), List(<<Entry1, Entry2>>), List(<<Entry1, Malformed>>)}

\* what the user types at the date prompt: nothing, or a date
DatesTyped == {"", "2023-05-01"}

InitScan ==
    /\ store = <<>>
    /\ config = [auto_enrich |-> "False", user_categories |-> FALSE]
    /\ nops = 0
    /\ lastOp = [op |-> "init"]
    /\ processed_images = NoMarks
    /\ procs = NoCall

Scan(directory, answers, dates) ==
    /\ nops < MaxOps
    /\ \E r \in {scan(store, processed_images, config, directory, answers, dates)} :
           /\ store' = r.rows
           /\ processed_images' = r.processed
           /\ nops' = nops + 1
           /\ lastOp' = [op |-> "scan", directory |-> directory, before |-> store,
                         extracted |-> r.extracted, errors |-> r.errors,
                         answers |-> [i \in Range(r.extracted) |-> answers[i]],
                         dates |-> [i \in Range(r.extracted) |-> dates[i]]]
    /\ UNCHANGED <<config, procs>>

\* the images a scan may pass to extraction: those its directories list at its
\* start
Candidates(directory) ==
    IF directory = "all"
    THEN Range(scan_directory(processed_images, Directories.shows_seen))
         \cup Range(scan_directory(processed_images, Directories.shows_wishlist))
    ELSE Range(scan_directory(processed_images, Directories[directory]))

\* the date prompt is shown for the shows of an image of the seen directory
AsksDate(image_path, answer) ==
    /\ get_seen_status_from_directory(image_path) = "seen"
    /\ answer.kind = "list"
    /\ answer.shows # <<>>

NextScan ==
    \E directory \in {"shows_seen", "shows_wishlist", "all"} :
        \E answers \in [Candidates(directory) -> ExtractionAnswers] :
            \E dates \in [Candidates(directory) -> DatesTyped] :
                /\ \A i \in Candidates(directory) :
                       AsksDate(i, answers[i]) \/ dates[i] = ""
                /\ Scan(directory, answers, dates)

SpecScan == InitScan /\ [][NextScan]_vars

----------------------------------------------------------------------------
(* Properties of scan, over the runs of SpecScan *)

\* C21: a marker of table processed_images is never taken away, and a scan passes
\* to extract_shows_from_image no image that had a marker when the scan began,
\* and no image twice.
C21_MarkedIsNeverRescanned ==
    [][/\ DOMAIN processed_images \subseteq DOMAIN processed_images'
       /\ lastOp'.op = "scan" =>
             /\ Range(lastOp'.extracted) \cap DOMAIN processed_images = {}
             /\ \A i, j \in 1..Len(lastOp'.extracted) :
                   i # j => lastOp'.extracted[i] # lastOp'.extracted[j]]_vars

\* a scan of both directories passed the image of the second one alone, the
\* image of the first having its marker from the scan before
C21_Witness ==
    /\ lastOp.op = "scan"
    /\ lastOp.directory = "all"
    /\ nops = 2
    /\ lastOp.extracted = <<"wish/p2.JPG">>
    /\ "seen/p1.jpg" \in DOMAIN processed_images

\* the sequence extraction returned for an image the last scan passed to it
Extracted(image_path) == extract_shows_from_image(lastOp.answers[image_path]).shows

\* C22: the marker a scan writes for an image holds, as its count, the length of
\* the sequence extraction returned for the image, also when shows of the
\* sequence are duplicates of stored records.
C22_MarkerCountsExtracted ==
    lastOp.op = "scan" =>
        \A image_path \in Range(lastOp.extracted) \cap DOMAIN processed_images :
            processed_images[image_path] = Len(Extracted(image_path))

\* the provider call for the image failed, or it answered the empty list
NothingExtracted(answer) == answer.kind = "error" \/ answer = List(<<>>)

\* C29: a scan passes to extraction every image of its directories that has no
\* marker; an image for which extraction returns the empty sequence, a failed
\* provider call included, gets a marker with count 0, which stays; and an image
\* passed to extraction is without marker after the scan exactly when its
\* processing raised.
C29_EmptyIsMarkedErrorIsRetried ==
    [][/\ \A image_path \in DOMAIN processed_images :
             processed_images[image_path] = 0 =>
                 /\ image_path \in DOMAIN processed_images'
                 /\ processed_images'[image_path] = 0
       /\ lastOp'.op = "scan" =>
             /\ Range(lastOp'.extracted) = Candidates(lastOp'.directory)
             /\ \A image_path \in Range(lastOp'.extracted) :
                   /\ NothingExtracted(lastOp'.answers[image_path])
                         => /\ image_path \in DOMAIN processed_images'
                            /\ processed_images'[image_path] = 0
                            /\ image_path \notin lastOp'.errors
                   /\ (image_path \notin DOMAIN processed_images')
                         = (image_path \in lastOp'.errors)]_vars

\* the second scan retried the image whose processing had raised, and not the
\* image whose provider call had failed, marked with count 0
C29_Witness ==
    /\ lastOp.op = "scan"
    /\ lastOp.directory = "all"
    /\ nops = 2
    /\ lastOp.extracted = <<"wish/p2.JPG">>
    /\ "seen/p1.jpg" \in DOMAIN processed_images
    /\ processed_images["seen/p1.jpg"] = 0
    /\ lastOp.errors = {"wish/p2.JPG"}
    /\ "wish/p2.JPG" \notin DOMAIN processed_images

====
